---- MODULE Spec2Model ----
(***************************************************************************)
(* Model of unicycler/graph_modifications.py: trim_blunt_ends and the      *)
(* helpers it calls (make_blast_db, search_blastn, BlastHit, get_segment). *)
(* The two external programs (makeblastdb, blastn) are the environment:    *)
(* what they print on stdout and stderr is chosen nondeterministically.    *)
(* The Segment class lives in assembly_graph_segment.py, which is not part *)
(* of the excerpt; its two trim operations follow their documented         *)
(* contract.                                                               *)
(***************************************************************************)
EXTENDS Integers, Sequences, FiniteSets

VARIABLES
    overlap,        \* self.overlap
    segments,       \* self.segments: id -> [forward_sequence, reverse_sequence]
    forward_links,  \* self.forward_links: signed id -> set of signed ids
    pc,             \* position inside trim_blunt_ends
    segment_edges,  \* local of trim_blunt_ends
    db,             \* records written to the makeblastdb input file
    query_fa,       \* records written to the query file
    blast_err,      \* blastn wrote to its error stream
    blast_out,      \* lines blastn wrote to its output stream
    hits,           \* filtered BlastHit objects
    h,              \* index of the next hit of the for loop
    report,         \* one entry per processed hit (the line logged at 206,
                    \* with the segment's length before and after as history)
    calls,          \* history: the trim_from_start / trim_from_end calls made
    segments0       \* history: self.segments on entry

vars == <<overlap, segments, forward_links, pc, segment_edges, db, query_fa,
          blast_err, blast_out, hits, h, report, calls, segments0>>

----------------------------------------------------------------------------
(* Bounds of the model *)

MaxOverlap == 2
MaxAlign == 2
MaxHits == 2

----------------------------------------------------------------------------
(* Helpers *)

Abs(x) == IF x < 0 THEN -x ELSE x

Min(a, b) == IF a < b THEN a ELSE b

SegIds == {1, 2}

Complement(b) ==
    CASE b = "A" -> "T"
      [] b = "T" -> "A"
      [] b = "C" -> "G"
      [] b = "G" -> "C"

ReverseComplement(s) == [i \in 1..Len(s) |-> Complement(s[Len(s) + 1 - i])]

NewSegment(s) == [forward_sequence |-> s, reverse_sequence |-> ReverseComplement(s)]

GetLength(seg) == Len(seg.forward_sequence)

\* seq[:n] of Python, n >= 0
Prefix(s, n) == SubSeq(s, 1, Min(n, Len(s)))

\* seq[n:] of Python, n >= 0
DropFirst(s, n) == SubSeq(s, n + 1, Len(s))

\* the sequence without its last n elements, n >= 0
DropLast(s, n) == SubSeq(s, 1, Len(s) - n)

InvalidTrim(seg, n) == n < 0 \/ n > GetLength(seg)

TrimFromStart(seg, n) ==
    [forward_sequence |-> DropFirst(seg.forward_sequence, n),
     reverse_sequence |-> DropLast(seg.reverse_sequence, n)]

TrimFromEnd(seg, n) ==
    [forward_sequence |-> DropLast(seg.forward_sequence, n),
     reverse_sequence |-> DropFirst(seg.reverse_sequence, n)]

get_segment(seg_num, segs) ==
    IF seg_num > 0 THEN segs[seg_num].forward_sequence
    ELSE segs[-seg_num].reverse_sequence

----------------------------------------------------------------------------
(* The graph handed to trim_blunt_ends *)

SeqPool == { <<"A", "C", "G">>, <<"A", "C", "G", "T", "T">> }

Mirror(l) == <<-l[2], -l[1]>>

LinkGens == { <<1, 2>>, <<2, 1>>, <<1, -1>> }

LinkTable(G) == G \cup { Mirror(l) : l \in G }

ForwardLinks(links) ==
    [s \in { l[1] : l \in links } |-> { l[2] : l \in { k \in links : k[1] = s } }]

Init ==
    /\ overlap \in 0..MaxOverlap
    /\ \E f \in [SegIds -> SeqPool] :
          /\ segments = [id \in SegIds |-> NewSegment(f[id])]
          /\ segments0 = [id \in SegIds |-> NewSegment(f[id])]
    /\ \E G \in SUBSET LinkGens : forward_links = ForwardLinks(LinkTable(G))
    /\ pc = "classify"
    /\ segment_edges = {}
    /\ db = {}
    /\ query_fa = {}
    /\ blast_err = FALSE
    /\ blast_out = <<>>
    /\ hits = <<>>
    /\ h = 1
    /\ report = <<>>
    /\ calls = <<>>

----------------------------------------------------------------------------
(* Steps of trim_blunt_ends *)

SegmentEdges_Sources(fl) ==
    { start : start \in DOMAIN fl }
        \cup UNION { fl[start] : start \in DOMAIN fl }

SegmentEdges(fl) ==
    { -start : start \in DOMAIN fl }
        \cup UNION { fl[start] : start \in DOMAIN fl }

Classify ==
    /\ pc = "classify"
    /\ segment_edges' = SegmentEdges(forward_links)
    /\ pc' = "make_db"
    /\ UNCHANGED <<overlap, segments, forward_links, db, query_fa, blast_err,
                   blast_out, hits, h, report, calls, segments0>>

Take(seq, take) == IF take # 0 THEN Prefix(seq, take) ELSE seq

MakeBlastDb ==
    /\ pc = "make_db"
    /\ db' = { <<seg_num, Take(get_segment(seg_num, segments), overlap)>> :
                   seg_num \in segment_edges }
    /\ \E err \in BOOLEAN : pc' = IF err THEN "failed" ELSE "write_queries"
    /\ UNCHANGED <<overlap, segments, forward_links, segment_edges, query_fa,
                   blast_err, blast_out, hits, h, report, calls, segments0>>

QueryIds(segs, edges) ==
    { seg_num \in DOMAIN segs : seg_num \notin edges }
        \cup { -seg_num : seg_num \in { s \in DOMAIN segs : -s \notin edges } }

WriteQueries ==
    /\ pc = "write_queries"
    /\ query_fa' = { <<q, Prefix(get_segment(q, segments), overlap)>> :
                         q \in QueryIds(segments, segment_edges) }
    /\ pc' = "search"
    /\ UNCHANGED <<overlap, segments, forward_links, segment_edges, db,
                   blast_err, blast_out, hits, h, report, calls, segments0>>

----------------------------------------------------------------------------
(* blastn and the hits read from its output *)

Pidents == {99, 100}

\* qseqid sstart send pident length qseq qstart bitscore; the fields that
\* BlastHit never reads (sstart, send, qseq) are written as 0
FullLines(ids) ==
    { <<q, 0, 0, p, n, 0, 1, 0>> : q \in ids, p \in Pidents, n \in 1..MaxAlign }

\* a line cut after its fourth field
ShortLines(ids) == { <<q, 0, 0, 100>> : q \in ids }

BlastLines(ids) == FullLines(ids) \cup ShortLines(ids)

SeqsUpTo(S, n) == UNION { [1..k -> S] : k \in 0..n }

BlastHit(blast_line) ==
    IF Len(blast_line) > 7
    THEN [qseqid |-> blast_line[1], pident |-> blast_line[4],
          qstart |-> blast_line[7] - 1, bitscore |-> blast_line[8],
          length |-> blast_line[5], flip |-> FALSE]
    ELSE [qseqid |-> "", pident |-> 0, length |-> 0, bitscore |-> 0,
          flip |-> FALSE]

ParseLines(out) == [i \in 1..Len(out) |-> BlastHit(out[i])]

KeepHit_Loose(x) == x.pident >= 99

KeepHit(x) == x.pident = 100

SearchBlastn ==
    /\ pc = "search"
    /\ \E err \in BOOLEAN :
       \E out \in SeqsUpTo(BlastLines({ r[1] : r \in query_fa }), MaxHits) :
          /\ blast_err' = err
          /\ blast_out' = out
          /\ hits' = SelectSeq(ParseLines(out), KeepHit)
    /\ pc' = "loop"
    /\ UNCHANGED <<overlap, segments, forward_links, segment_edges, db,
                   query_fa, h, report, calls, segments0>>

----------------------------------------------------------------------------
(* The loop over the hits *)

StartTrimOf_Neg(seg_num, length) == IF seg_num < 0 THEN length ELSE 0

StartTrimOf(seg_num, length) == IF seg_num > 0 THEN length ELSE 0

EndTrimOf(seg_num, length) == IF seg_num < 0 THEN length ELSE 0

FloorAllows_AtLeast(len, trim, ov) == len - trim >= ov

FloorAllows_NoTrim(len, trim, ov) == len > ov

FloorAllows(len, trim, ov) == len - trim > ov

ProcessHitBody ==
    /\ pc = "loop"
    /\ h <= Len(hits)
    /\ LET seg_num == hits[h].qseqid
           id == Abs(seg_num)
           segment == segments[id]
           start_trim0 == StartTrimOf(seg_num, hits[h].length)
           end_trim0 == EndTrimOf(seg_num, hits[h].length)
           do_start == FloorAllows(GetLength(segment), start_trim0, overlap)
           bad_start == do_start /\ InvalidTrim(segment, start_trim0)
           seg1 == IF do_start /\ ~bad_start
                   THEN TrimFromStart(segment, start_trim0) ELSE segment
           start_trim == IF do_start THEN start_trim0 ELSE 0
           do_end == ~bad_start /\ FloorAllows(GetLength(seg1), end_trim0, overlap)
           bad_end == do_end /\ InvalidTrim(seg1, end_trim0)
           seg2 == IF do_end /\ ~bad_end
                   THEN TrimFromEnd(seg1, end_trim0) ELSE seg1
           end_trim == IF do_end THEN end_trim0 ELSE 0
           call1 == IF do_start
                    THEN <<[op |-> "trim_from_start", seg |-> id, n |-> start_trim0,
                            len |-> GetLength(segment)]>>
                    ELSE <<>>
           call2 == IF do_end
                    THEN <<[op |-> "trim_from_end", seg |-> id, n |-> end_trim0,
                            len |-> GetLength(seg1)]>>
                    ELSE <<>>
       IN /\ segments' = [segments EXCEPT ![id] = seg2]
          /\ calls' = calls \o call1 \o call2
          /\ IF bad_start \/ bad_end
             THEN /\ pc' = "InvalidTrimError"
                  /\ UNCHANGED <<h, report>>
             ELSE /\ pc' = "loop"
                  /\ h' = h + 1
                  /\ report' = Append(report,
                                 [seg_num |-> seg_num, start_trim |-> start_trim,
                                  end_trim |-> end_trim,
                                  len_before |-> GetLength(segment),
                                  len_after |-> GetLength(seg2)])
    /\ UNCHANGED <<overlap, segment_edges, db, query_fa, blast_err, blast_out,
                   hits, segments0>>

ProcessHit_Unlink == ProcessHitBody /\ forward_links' = [s \in {} |-> {}]

ProcessHit == ProcessHitBody /\ UNCHANGED forward_links

Finish ==
    /\ pc = "loop"
    /\ h > Len(hits)
    /\ pc' = "done"
    /\ UNCHANGED <<overlap, segments, forward_links, segment_edges, db, query_fa,
                   blast_err, blast_out, hits, h, report, calls, segments0>>

Next ==
    \/ Classify
    \/ MakeBlastDb
    \/ WriteQueries
    \/ SearchBlastn
    \/ ProcessHit
    \/ Finish

Spec == Init /\ [][Next]_vars

----------------------------------------------------------------------------
(* Properties *)

IsTarget(s) == \E a \in DOMAIN forward_links : s \in forward_links[a]

IsSource(s) == s \in DOMAIN forward_links /\ forward_links[s] # {}

Forward(id) == segments[id].forward_sequence

Removed(i) == report[i].start_trim + report[i].end_trim

RECURSIVE SumRemoved(_)
SumRemoved(I) ==
    IF I = {} THEN 0
    ELSE LET i == CHOOSE x \in I : TRUE IN Removed(i) + SumRemoved(I \ {i})

MaxOf(I) == CHOOSE x \in I : \A y \in I : y <= x

\* C1 (as the code has it): when a hit's trim passes the safety floor, a
\* positive query id removes alignment_length bases from the START of the
\* forward sequence and keeps its end; a negative query id removes them from
\* the END and keeps its start.
C1_TrimSideBySign ==
    [][(pc = "loop" /\ h <= Len(hits)) =>
          LET q == hits[h].qseqid
              n == hits[h].length
              fwd == Forward(Abs(q))
              fwd2 == segments'[Abs(q)].forward_sequence
          IN  Len(fwd) - n > overlap =>
                 /\ q > 0 => fwd2 = SubSeq(fwd, n + 1, Len(fwd))
                 /\ q < 0 => fwd2 = SubSeq(fwd, 1, Len(fwd) - n)]_vars

\* C1 as claimed: a positive query id trims from the END of the forward
\* sequence, a negative one from the START (stated for a positive overlap
\* length, the case in which trimming is meant to happen).
C1_Original ==
    [][(overlap > 0 /\ pc = "loop" /\ h <= Len(hits)) =>
          LET q == hits[h].qseqid
              n == hits[h].length
              fwd == Forward(Abs(q))
              fwd2 == segments'[Abs(q)].forward_sequence
          IN  Len(fwd) - n > overlap =>
                 /\ q > 0 => fwd2 = SubSeq(fwd, 1, Len(fwd) - n)
                 /\ q < 0 => fwd2 = SubSeq(fwd, n + 1, Len(fwd))]_vars

C1_Witness ==
    /\ pc = "done"
    /\ \E i \in DOMAIN report : report[i].seg_num > 0 /\ report[i].start_trim > 0
    /\ \E i \in DOMAIN report : report[i].seg_num < 0 /\ report[i].end_trim > 0

C3_Claim ==
    overlap = 0 =>
        /\ segments = segments0
        /\ \A k \in DOMAIN calls : calls[k].n = 0

\* C4: a segment's sequence differs from the one it had on entry only if
\* blastn printed a complete line with pident 100 whose query id names the
\* segment with either sign.
C4_EvidenceGating ==
    \A id \in SegIds :
        segments[id] # segments0[id] =>
            \E k \in DOMAIN blast_out :
                /\ Len(blast_out[k]) > 7
                /\ blast_out[k][4] = 100
                /\ Abs(blast_out[k][1]) = id

C4_Witness ==
    /\ pc = "done"
    /\ \E id \in SegIds : segments[id] # segments0[id]
    /\ \E id \in SegIds :
          /\ segments[id] = segments0[id]
          /\ \E k \in DOMAIN blast_out :
                Abs(blast_out[k][1]) = id
                    /\ (Len(blast_out[k]) <= 7 \/ blast_out[k][4] < 100)

\* C5 as claimed: over the whole run the bases removed on behalf of one
\* query id are those of its last hit (or none, by the safety floor), and at
\* most one hit per query id has an effect (stated for a positive overlap
\* length).
C5_Claim ==
    (overlap > 0 /\ pc = "done") =>
        \A q \in { hits[i].qseqid : i \in DOMAIN hits } :
            LET I == { i \in DOMAIN hits : hits[i].qseqid = q }
            IN  /\ SumRemoved(I) \in {0, hits[MaxOf(I)].length}
                /\ Cardinality({ i \in I : Removed(i) > 0 }) <= 1

\* C6 as claimed: when makeblastdb or blastn wrote to its error stream, the
\* run fails and no segment is trimmed (stated for a positive overlap
\* length).
C6_Claim ==
    overlap > 0 =>
        /\ pc = "failed" => segments = segments0 /\ calls = <<>>
        /\ blast_err => segments = segments0 /\ calls = <<>>

\* C7: once the database and the queries are written, a signed end is in
\* the database iff it is the target of a link (iff its negation is the
\* source of one), it is a query iff it is no target, and so it is in
\* exactly one of the two.
C7_DeadEndClassification ==
    pc \in {"search", "loop", "done"} =>
        \A id \in SegIds : \A s \in {id, -id} :
            LET inDb == s \in { r[1] : r \in db }
                inQuery == s \in { r[1] : r \in query_fa }
            IN  /\ inDb <=> IsTarget(s)
                /\ IsTarget(s) <=> IsSource(-s)
                /\ inQuery <=> ~IsTarget(s)
                /\ inDb # inQuery

C7_Witness ==
    /\ pc = "search"
    /\ \E id \in SegIds : id \in { r[1] : r \in query_fa } /\ -id \in { r[1] : r \in db }
    /\ \E id \in SegIds : -id \in { r[1] : r \in query_fa } /\ id \in { r[1] : r \in db }

\* C8: no step of the run changes the link table.
C8_NoLinkMutation == [][forward_links' = forward_links]_vars

C8_Witness ==
    /\ pc = "done"
    /\ DOMAIN forward_links # {}
    /\ segments # segments0

\* C9 as claimed: whenever the loop is about to decide a hit, the segment
\* the hit names still has the sequence it had on entry, i.e. no decision
\* reads a length that an earlier trim of the run has reduced (stated for a
\* positive overlap length and for hits on distinct ends).
C9_Claim ==
    (/\ overlap > 0
     /\ pc = "loop"
     /\ h <= Len(hits)
     /\ \A i \in 1..(h - 1) : hits[i].qseqid # hits[h].qseqid) =>
        segments[Abs(hits[h].qseqid)] = segments0[Abs(hits[h].qseqid)]

\* C10: every trim_from_start(n) / trim_from_end(n) call has
\* 0 <= n <= the segment's length at the call; InvalidTrimError is never
\* raised.
C10_NoInvalidTrim ==
    /\ pc # "InvalidTrimError"
    /\ \A k \in DOMAIN calls : 0 <= calls[k].n /\ calls[k].n <= calls[k].len

C10_Witness ==
    /\ pc = "done"
    /\ \E k \in DOMAIN calls : calls[k].op = "trim_from_start" /\ calls[k].n > 0
    /\ \E k \in DOMAIN calls : calls[k].op = "trim_from_end" /\ calls[k].n > 0

====
